---- MODULE Spec2Model ----
(***************************************************************************)
(* A model of tensorkit/layers/pixelcnn.py: the kernel/shift splitting,    *)
(* the shifted-convolution builder, the PixelCNN input, residual and       *)
(* output layers and the composite network.                                *)
(*                                                                         *)
(* Python lists are sequences (index 0 of the code is index 1 here).       *)
(* A tensor is a record [shape, data]: shape is the channel-first shape    *)
(* <<batch, channels, s_1, ..., s_D>>, data maps every spatial position    *)
(* (a tuple of D coordinates, 0-based as in the code) to a natural number. *)
(* The number is the element's dependency count: how many data-flow paths  *)
(* lead to it from the one input element that a run perturbs.  0 means     *)
(* the element is computed without reading the perturbed element, so it    *)
(* is the same in the perturbed and in the unperturbed run.  A convolution *)
(* sums the counts in its window, an addition adds them, a shift moves     *)
(* them, and padding and constant tensors contribute 0.                    *)
(***************************************************************************)
EXTENDS Integers, Sequences, FiniteSets, TLC

VARIABLES
    pc,       \* where the client is: idle, constructed, returned, raised, and
              \* inside PixelCNNNd._call: blocks, inside
              \* PixelCNNResBlockNd._call: stage, inside BranchAndAdd._call:
              \* branches
    self,     \* the layer object the last constructor built (None: none)
    args,     \* the arguments of the last call, with its name as args.op
    outputs,  \* the local `outputs` of PixelCNNNd._call (line 599), the local
              \* `resnet_outputs` of PixelCNNResBlockNd._call (line 523), the
              \* local `branch_outputs` of BranchAndAdd._call (line 74)
    idx,      \* how many of self.layers PixelCNNNd._call has gone through,
              \* the local `i` of PixelCNNResBlockNd._call (line 524)
    ret,      \* what the last call returned or raised: [err, val]
    calls     \* the calls the running call has made to the layers it owns,
              \* in the order it made them

vars == <<pc, self, args, outputs, idx, ret, calls>>

(***************************************************************************)
(* Bounds of the model.                                                    *)
(***************************************************************************)
GridSize == 4       \* elements per spatial axis of the input tensors
MaxKernel == 5      \* kernel sizes are 1..MaxKernel
MaxDilation == 2    \* dilations are 1..MaxDilation
MaxNdims == 3       \* list lengths given to the two splitting functions
MaxConvNdims == 2   \* spatial axes of the stand-alone shifted_conv calls
MaxLayers == 2      \* residual layers of a network
MaxCount == 1000000 \* dependency counts saturate here: this many or more
MaxContext == 2     \* tensors of the external context of a residual layer's call
MaxBranches == 3    \* branches of a stand-alone BranchAndAdd

\* Python's None, where a layer or a value may be absent
None == [cls |-> "None"]

\* the 1d / 2d / 3d subclasses, each overriding _get_spatial_ndims
SpatialNdims == {1, 2, 3}

Min(a, b) == IF a <= b THEN a ELSE b

ListRepeat(v, n) == [x \in 1..n |-> v]

\* all lists of length n over S
Lists(S, n) == [1..n -> S]

(***************************************************************************)
(* get_stack_kernel_sizes and get_stack_conv_shifts                        *)
(***************************************************************************)
k_size_floor(kernel_size, i, j) ==
    IF j <= i THEN kernel_size[j + 1] \div 2 ELSE kernel_size[j + 1]

\* lines 165-168, i and j 0-based as in the code
k_size(kernel_size, i, j) ==
    IF j <= i THEN (kernel_size[j + 1] + 1) \div 2 ELSE kernel_size[j + 1]

get_stack_kernel_sizes(kernel_size) ==
    LET spatial_ndims == Len(kernel_size)
    IN  [i1 \in 1..spatial_ndims |->
            [j1 \in 1..spatial_ndims |-> k_size(kernel_size, i1 - 1, j1 - 1)]]

conv_shifts_row_exclusive(spatial_ndims, i) ==
    ListRepeat(TRUE, i) \o ListRepeat(FALSE, spatial_ndims - i)

\* line 177, i 0-based as in the code
conv_shifts_row(spatial_ndims, i) ==
    ListRepeat(TRUE, i + 1) \o ListRepeat(FALSE, spatial_ndims - i - 1)

get_stack_conv_shifts(spatial_ndims) ==
    [i1 \in 1..spatial_ndims |-> conv_shifts_row(spatial_ndims, i1 - 1)]

(***************************************************************************)
(* shifted_conv                                                            *)
(***************************************************************************)
axis_padding_right(shift, k, d) ==
    LET t == (k - 1) * d
    IN  IF shift THEN <<0, t>> ELSE <<t - t \div 2, t \div 2>>

axis_padding_symmetric(shift, k, d) ==
    LET t == (k - 1) * d
    IN  <<t \div 2, t - t \div 2>>

axis_padding_half_both(shift, k, d) ==
    LET t == (k - 1) * d
    IN  IF shift THEN <<t, 0>> ELSE <<t \div 2, t \div 2>>

\* lines 36-40: the (left, right) padding of one axis
axis_padding(shift, k, d) ==
    LET t == (k - 1) * d
    IN  IF shift THEN <<t, 0>> ELSE <<t \div 2, t - t \div 2>>

shifted_conv_keep_kwargs(conv_cls, in_channels, out_channels, spatial_shift, kernel_size, dilation, kwargs) ==
    LET n == Min(Len(spatial_shift), Min(Len(kernel_size), Len(dilation)))
        padding == [a \in 1..n |->
                       axis_padding(spatial_shift[a], kernel_size[a], dilation[a])]
    IN  [cls |-> conv_cls,
         in_channels |-> in_channels,
         out_channels |-> out_channels,
         kernel_size |-> kernel_size,
         dilation |-> dilation,
         padding |-> padding,
         kwargs |-> kwargs]

\* kernel_size and dilation are the lists validate_conv_size returns (one
\* size per spatial axis; the default dilation 1 is ListRepeat(1, D)).
\* kwargs is a record of keyword arguments; a "padding" among them is popped
\* (line 27) and never read.  zip (line 35) stops at the shortest list.
shifted_conv(conv_cls, in_channels, out_channels, spatial_shift, kernel_size, dilation, kwargs) ==
    LET n == Min(Len(spatial_shift), Min(Len(kernel_size), Len(dilation)))
        padding == [a \in 1..n |->
                       axis_padding(spatial_shift[a], kernel_size[a], dilation[a])]
    IN  [cls |-> conv_cls,
         in_channels |-> in_channels,
         out_channels |-> out_channels,
         kernel_size |-> kernel_size,
         dilation |-> dilation,
         padding |-> padding,
         kwargs |-> [k \in (DOMAIN kwargs) \ {"padding"} |-> kwargs[k]]]

(***************************************************************************)
(* Tensors and the tensor runtime (tensorkit.tensor): rank, shift, the     *)
(* addition and the convolution with explicit per-axis padding.            *)
(***************************************************************************)
\* the spatial positions of a tensor of spatial shape s
Box(s) ==
    LET m == IF Len(s) = 0 THEN 0 ELSE CHOOSE x \in {s[a] : a \in 1..Len(s)} : \A a \in 1..Len(s) : s[a] <= x
    IN  {p \in [1..Len(s) -> 0..(m - 1)] : \A a \in 1..Len(s) : p[a] < s[a]}

\* a dependency count, saturated
Sat(x) == IF x > MaxCount THEN MaxCount ELSE x

\* TLC enumerates a function once when it is compared, and not at every
\* application: the tensors of the model are enumerated as they are built.
Materialize(f) == IF f = f THEN f ELSE f

rank(t) == Len(t.shape)

spatial_shape(t) == SubSeq(t.shape, 3, Len(t.shape))

At(t, p) == IF p \in DOMAIN t.data THEN t.data[p] ELSE 0

\* shift(input, s): the content moves by s[a] along axis a, zeros move in
shift(t, s) ==
    [shape |-> t.shape,
     data  |-> Materialize([p \in DOMAIN t.data |->
                  At(t, [a \in DOMAIN p |-> p[a] - s[a]])])]

\* the elementwise a + b of two tensors of one shape
add(a, b) ==
    [shape |-> a.shape,
     data  |-> Materialize([p \in DOMAIN a.data |-> Sat(a.data[p] + b.data[p])])]

RECURSIVE conv_window(_, _, _, _, _)
\* the sum of the elements of t that the window placed at output position p
\* covers, from axis a on (q: the input position chosen on the axes before a)
\* and from tap o of axis a on; a tap that falls into the padding reads 0
conv_window(conv, t, q, a, o) ==
    IF a > Len(conv.kernel_size)
    THEN t.data[q]
    ELSE IF o >= conv.kernel_size[a]
    THEN 0
    ELSE LET c == q[a] - conv.padding[a][1] + o * conv.dilation[a]
         IN  (IF c < 0 \/ c >= t.shape[a + 2]
              THEN 0
              ELSE conv_window(conv, t, [q EXCEPT ![a] = c], a + 1, 0))
             + conv_window(conv, t, q, a, o + 1)

\* the spatial shape a stride-1 convolution layer gives an input of spatial
\* shape s: axis a has s + left + right - (k - 1) * d elements
conv_output_shape(conv, s) ==
    [a \in 1..Len(s) |-> s[a] + conv.padding[a][1] + conv.padding[a][2]
                           - (conv.kernel_size[a] - 1) * conv.dilation[a]]

\* a stride-1 convolution layer applied to t
conv_call(conv, t) ==
    LET s == spatial_shape(t)
        o == conv_output_shape(conv, s)
    IN  [shape |-> <<t.shape[1], conv.out_channels>> \o o,
         data  |-> Materialize([p \in Box(o) |-> Sat(conv_window(conv, t, p, 1, 0))])]

(***************************************************************************)
(* The small layers: SpatialShift, Sequential, BranchAndAdd,               *)
(* AddOnesChannelNd, the contextual layers.                                *)
(***************************************************************************)
Ok(v) == [err |-> "none", val |-> v]

Raise(e) == [err |-> e, val |-> None]

\* channel-first (T.IS_CHANNEL_LAST false): the shift list is kept as given
SpatialShift_init(s) == [cls |-> "SpatialShift", shift |-> s]

SpatialShift_call(layer, input) == shift(input, layer.shift)

\* Sequential(conv, SpatialShift(...)) of lines 251-264
Sequential_init(conv, shift_layer) == [cls |-> "Sequential", conv |-> conv, shift |-> shift_layer]

Sequential_call(layer, input) == SpatialShift_call(layer.shift, conv_call(layer.conv, input))

BranchAndAdd_init(branches) == [cls |-> "BranchAndAdd", branches |-> branches]

RECURSIVE add_from(_, _, _)
\* lines 78-79: output = output + branch_output over branch_outputs[n:]
add_from(output, branch_outputs, n) ==
    IF n > Len(branch_outputs)
    THEN output
    ELSE add_from(add(output, branch_outputs[n]), branch_outputs, n + 1)

BranchAndAdd_call_double_first(layer, input) ==
    LET branch_outputs == [b \in 1..Len(layer.branches) |-> Sequential_call(layer.branches[b], input)]
    IN  add_from(branch_outputs[1], branch_outputs, 1)

BranchAndAdd_call_first_only(layer, input) == Sequential_call(layer.branches[1], input)

BranchAndAdd_call(layer, input) ==
    LET branch_outputs == [b \in 1..Len(layer.branches) |-> Sequential_call(layer.branches[b], input)]
    IN  add_from(branch_outputs[1], branch_outputs, 2)

branch_eval_chained(layer, b, input, branch_outputs) ==
    IF b > 1 /\ branch_outputs[b - 1] /= None
    THEN Sequential_call(layer.branches[b], branch_outputs[b - 1])
    ELSE Sequential_call(layer.branches[b], input)

\* line 76, branch(input) for branch b (1-based), whatever the other
\* branches have put into branch_outputs so far
branch_eval(layer, b, input, branch_outputs) == Sequential_call(layer.branches[b], input)

\* a stack of the input layer: the lone Sequential or the BranchAndAdd
stack_call(layer, input) ==
    IF layer.cls = "BranchAndAdd"
    THEN BranchAndAdd_call(layer, input)
    ELSE Sequential_call(layer, input)

\* one more channel, all ones: a constant, which no input element reaches
AddOnesChannelNd_call(input) ==
    [shape |-> [input.shape EXCEPT ![2] = @ + 1], data |-> input.data]

\* contextual.py: the layers a merge_context1 factory may build
RECURSIVE add_all(_, _, _)
add_all(output, context, n) ==
    IF n > Len(context)
    THEN output
    ELSE add_all(add(output, context[n]), context, n + 1)

AddContext_call(input, context) == add_all(input, context, 1)

IgnoreContext_call(input, context) == input

context_layer_call(layer, input, context) ==
    IF layer.cls = "AddContext"
    THEN AddContext_call(input, context)
    ELSE IgnoreContext_call(input, context)

AddLeadingContext_init_short(first_n) == [cls |-> "AddLeadingContext", first_n |-> first_n - 1]

AddLeadingContext_init(first_n) == [cls |-> "AddLeadingContext", first_n |-> first_n]

RECURSIVE add_leading(_, _, _, _)
\* lines 138-139, i 0-based as in the code
add_leading(output, context, i, first_n) ==
    IF i >= first_n
    THEN output
    ELSE add_leading(add(output, context[i + 1]), context, i + 1, first_n)

AddLeadingContext_call(layer, input, context) == add_leading(input, context, 0, layer.first_n)

IgnoreLeadingContext_init(wrapped, first_n) == [cls |-> "IgnoreLeadingContext", wrapped |-> wrapped, first_n |-> first_n]

\* line 156, the slice context[first_n:]
slice_from(context, first_n) == SubSeq(context, first_n + 1, Len(context))

IgnoreLeadingContext_call(layer, input, context) ==
    context_layer_call(layer.wrapped, input, slice_from(context, layer.first_n))

\* a merge_context layer of a residual block, None for no layer
merge_call(layer, input, context) ==
    IF layer = None
    THEN input
    ELSE IF layer.cls = "AddLeadingContext"
    THEN AddLeadingContext_call(layer, input, context)
    ELSE IF layer.cls = "IgnoreLeadingContext"
    THEN IgnoreLeadingContext_call(layer, input, context)
    ELSE context_layer_call(layer, input, context)

(***************************************************************************)
(* PixelCNNInputNd                                                         *)
(***************************************************************************)
branch_shift_none(spatial_ndims, j) == [a \in 1..spatial_ndims |-> 0]

\* the list [0] * spatial_ndims with spatial_shift[j] = 1 (lines 246-247)
branch_shift(spatial_ndims, j) == [a \in 1..spatial_ndims |-> IF a = j + 1 THEN 1 ELSE 0]

\* lines 250-265: the branch of axis j (0-based) of a stack
input_branch(spatial_ndims, in_channels, out_channels, stack_kernel_sizes, stack_conv_shifts, j) ==
    Sequential_init(
        shifted_conv("Conv", in_channels, out_channels, stack_conv_shifts[j + 1],
                     stack_kernel_sizes[j + 1], ListRepeat(1, spatial_ndims),
                     [weight_norm |-> "False"]),
        SpatialShift_init(branch_shift(spatial_ndims, j)))

PixelCNNInputNd_init_row_of_stack(spatial_ndims, in_channels, out_channels, kernel_size, add_ones_channel) ==
    LET in_ch == IF add_ones_channel THEN in_channels + 1 ELSE in_channels
        stack_kernel_sizes == get_stack_kernel_sizes(kernel_size)
        stack_conv_shifts == get_stack_conv_shifts(spatial_ndims)
        stack_branches(i) ==
            [j1 \in 1..i |-> input_branch(spatial_ndims, in_ch, out_channels,
                                          [x \in 1..spatial_ndims |-> stack_kernel_sizes[i]],
                                          [x \in 1..spatial_ndims |-> stack_conv_shifts[i]], j1 - 1)]
    IN  [cls |-> "PixelCNNInputNd",
         spatial_ndims |-> spatial_ndims,
         add_ones_channel |-> add_ones_channel,
         stacks |-> [i \in 1..spatial_ndims |->
                        IF Len(stack_branches(i)) = 1
                        THEN stack_branches(i)[1]
                        ELSE BranchAndAdd_init(stack_branches(i))]]

PixelCNNInputNd_init(spatial_ndims, in_channels, out_channels, kernel_size, add_ones_channel) ==
    LET in_ch == IF add_ones_channel THEN in_channels + 1 ELSE in_channels
        stack_kernel_sizes == get_stack_kernel_sizes(kernel_size)
        stack_conv_shifts == get_stack_conv_shifts(spatial_ndims)
        stack_branches(i) ==
            [j1 \in 1..i |-> input_branch(spatial_ndims, in_ch, out_channels,
                                          stack_kernel_sizes, stack_conv_shifts, j1 - 1)]
    IN  [cls |-> "PixelCNNInputNd",
         spatial_ndims |-> spatial_ndims,
         add_ones_channel |-> add_ones_channel,
         stacks |-> [i \in 1..spatial_ndims |->
                        IF Len(stack_branches(i)) = 1
                        THEN stack_branches(i)[1]
                        ELSE BranchAndAdd_init(stack_branches(i))]]

input_stacks_reversed(layer, output) ==
    [i \in 1..Len(layer.stacks) |-> stack_call(layer.stacks[Len(layer.stacks) + 1 - i], output)]

\* lines 283-287: the outputs of the stacks, in the order of self.stacks
input_stacks(layer, output) ==
    [i \in 1..Len(layer.stacks) |-> stack_call(layer.stacks[i], output)]

PixelCNNInputNd_call(layer, input) ==
    IF rank(input) /= layer.spatial_ndims + 2
    THEN Raise("ValueError")
    ELSE Ok(input_stacks(layer,
                IF layer.add_ones_channel THEN AddOnesChannelNd_call(input) ELSE input))

(***************************************************************************)
(* PixelCNNOutputNd                                                        *)
(***************************************************************************)
PixelCNNOutputNd_init(spatial_ndims) == [cls |-> "PixelCNNOutputNd", spatial_ndims |-> spatial_ndims]

output_select_first(inputs) == inputs[1]

\* inputs[-1]
output_select(inputs) == inputs[Len(inputs)]

PixelCNNOutputNd_call(layer, inputs) ==
    IF Len(inputs) /= layer.spatial_ndims
    THEN Raise("ValueError")
    ELSE Ok(output_select(inputs))

(***************************************************************************)
(* The generic residual block (tensorkit.layers.resnet), built by          *)
(* PixelCNNResBlockNd with the three convolution factories and the two     *)
(* context-merge layers: the shortcut path plus the main path conv0,       *)
(* merge_context0, conv1, merge_context1.  Activation, normalizer,         *)
(* dropout and gate act on each element alone and are left out.            *)
(***************************************************************************)
\* partial(shifted_conv, conv_cls, spatial_shift=...) of lines 488-492
conv_factory_init(conv_cls, spatial_shift) == [conv_cls |-> conv_cls, spatial_shift |-> spatial_shift]

\* the residual block calls a factory with its own padding among the keywords
conv_factory_call(factory, in_channels, out_channels, kernel_size) ==
    shifted_conv(factory.conv_cls, in_channels, out_channels, factory.spatial_shift,
                 kernel_size, ListRepeat(1, Len(kernel_size)),
                 [stride |-> "1", padding |-> "half"])

ResBlockNd_init(in_channels, out_channels, kernel_size, shortcut, conv0, conv1, merge_context0, merge_context1) ==
    [cls |-> "ResBlockNd",
     shortcut |-> conv_factory_call(shortcut, in_channels, out_channels, kernel_size),
     conv0 |-> conv_factory_call(conv0, in_channels, out_channels, kernel_size),
     conv1 |-> conv_factory_call(conv1, out_channels, out_channels, kernel_size),
     merge_context0 |-> merge_context0,
     merge_context1 |-> merge_context1]

ResBlockNd_call(layer, input, context) ==
    LET residual == conv_call(layer.shortcut, input)
        main0 == merge_call(layer.merge_context0, conv_call(layer.conv0, input), context)
        main1 == merge_call(layer.merge_context1, conv_call(layer.conv1, main0), context)
    IN  add(residual, main1)

(***************************************************************************)
(* PixelCNNResBlockNd                                                      *)
(***************************************************************************)
kernel_size_ok_min_only(kernel_size) == \A a \in 1..Len(kernel_size) : kernel_size[a] >= 3

\* lines 446-456: no element below 3, no even element
kernel_size_ok(kernel_size) ==
    \A a \in 1..Len(kernel_size) : ~(kernel_size[a] < 3) /\ ~(kernel_size[a] % 2 /= 1)

\* a layer factory: the name of the class it builds, None for no factory
factory_call(factory) == [cls |-> factory.cls]

resnet_layer_unwrapped(spatial_ndims, in_channels, out_channels, stack_kernel_sizes, stack_conv_shifts, merge_context1, i) ==
    LET this_merge_context0 == IF i > 0 THEN AddLeadingContext_init(i) ELSE None
        this_merge_context1 == IF merge_context1 /= None THEN factory_call(merge_context1) ELSE None
        conv_factory == conv_factory_init("LinearConv", stack_conv_shifts[i + 1])
    IN  ResBlockNd_init(in_channels, out_channels, stack_kernel_sizes[i + 1],
                        conv_factory, conv_factory, conv_factory,
                        this_merge_context0, this_merge_context1)

\* lines 474-515: the residual block of stack i (0-based)
resnet_layer(spatial_ndims, in_channels, out_channels, stack_kernel_sizes, stack_conv_shifts, merge_context1, i) ==
    LET this_merge_context0 == IF i > 0 THEN AddLeadingContext_init(i) ELSE None
        this_merge_context1 ==
            IF i > 0
            THEN IF merge_context1 /= None
                 THEN IgnoreLeadingContext_init(factory_call(merge_context1), i)
                 ELSE None
            ELSE IF merge_context1 /= None
                 THEN factory_call(merge_context1)
                 ELSE None
        conv_factory == conv_factory_init("LinearConv", stack_conv_shifts[i + 1])
    IN  ResBlockNd_init(in_channels, out_channels, stack_kernel_sizes[i + 1],
                        conv_factory, conv_factory, conv_factory,
                        this_merge_context0, this_merge_context1)

PixelCNNResBlockNd_init(spatial_ndims, in_channels, out_channels, kernel_size, merge_context1) ==
    IF ~kernel_size_ok(kernel_size)
    THEN Raise("ValueError")
    ELSE LET stack_kernel_sizes == get_stack_kernel_sizes(kernel_size)
             stack_conv_shifts == get_stack_conv_shifts(spatial_ndims)
         IN  Ok([cls |-> "PixelCNNResBlockNd",
                 spatial_ndims |-> spatial_ndims,
                 resnet_layers |-> [i1 \in 1..spatial_ndims |->
                     resnet_layer(spatial_ndims, in_channels, out_channels,
                                  stack_kernel_sizes, stack_conv_shifts,
                                  merge_context1, i1 - 1)]])

block_context_external_first(resnet_outputs, context) == context \o resnet_outputs

\* line 528, resnet_outputs + context
block_context(resnet_outputs, context) == resnet_outputs \o context

RECURSIVE resnet_loop(_, _, _, _, _)
\* lines 525-531, i 0-based as in the code; inputs[i] past the end of
\* inputs raises IndexError
resnet_loop(layer, inputs, context, resnet_outputs, i) ==
    IF i >= Len(layer.resnet_layers)
    THEN Ok(resnet_outputs)
    ELSE IF i >= Len(inputs)
    THEN Raise("IndexError")
    ELSE resnet_loop(layer, inputs, context,
                     Append(resnet_outputs,
                            ResBlockNd_call(layer.resnet_layers[i + 1], inputs[i + 1],
                                            block_context(resnet_outputs, context))),
                     i + 1)

PixelCNNResBlockNd_call(layer, inputs, context) == resnet_loop(layer, inputs, context, <<>>, 0)

(***************************************************************************)
(* PixelCNNNd                                                              *)
(***************************************************************************)
is_input_layer_any_arity(input_layer, spatial_ndims) == input_layer.cls = "PixelCNNInputNd"

\* isinstance(input_layer, PixelCNNInput{spatial_ndims}d)
is_input_layer(input_layer, spatial_ndims) ==
    input_layer.cls = "PixelCNNInputNd" /\ input_layer.spatial_ndims = spatial_ndims

is_jit_layer(layer) == layer.cls = "ScriptModule"

PixelCNNNd_init(spatial_ndims, input_layer, layers) ==
    IF ~is_input_layer(input_layer, spatial_ndims) /\ ~is_jit_layer(input_layer)
    THEN Raise("TypeError")
    ELSE Ok([cls |-> "PixelCNNNd",
             spatial_ndims |-> spatial_ndims,
             input_layer |-> input_layer,
             layers |-> layers,
             output_layer |-> PixelCNNOutputNd_init(spatial_ndims)])

(***************************************************************************)
(* The inputs the client draws.                                            *)
(***************************************************************************)
\* a tensor of one batch element and one channel that is v at position q
Indicator(s, q, v) ==
    [shape |-> <<1, 1>> \o s, data |-> [p \in Box(s) |-> IF p = q THEN v ELSE 0]]

Cube(n) == ListRepeat(GridSize, n)

\* the first position and the middle one
Probes(s) == {[a \in 1..Len(s) |-> 0], [a \in 1..Len(s) |-> s[a] \div 2]}

OddKernels == {k \in 3..MaxKernel : k % 2 = 1}

\* full kernels: one size on every axis, or on up to two axes any mix of sizes
FullKernels(n) == {ListRepeat(k, n) : k \in 1..MaxKernel} \cup (IF n <= 2 THEN Lists(1..MaxKernel, n) ELSE {})

MergeFactories == {None, [cls |-> "AddContext"], [cls |-> "IgnoreContext"]}

\* one entry of calls: the attribute of self that holds the layer called
\* (and the layer's index when the attribute is a list), what it was called
\* with and what the call returned or raised
Called(callee, index, input, context, result) ==
    [callee |-> callee, index |-> index, input |-> input, context |-> context, result |-> result]

Idle ==
    /\ pc = "idle"
    /\ self = None
    /\ args = [op |-> "none"]
    /\ outputs = <<>>
    /\ idx = 0
    /\ ret = Ok(None)
    /\ calls = <<>>

Init == Idle

(***************************************************************************)
(* The client calls one of the functions, or constructs a layer and then   *)
(* calls it.                                                               *)
(***************************************************************************)
Call_get_stack_kernel_sizes ==
    /\ pc = "idle"
    /\ \E n \in 1..MaxNdims : \E kernel_size \in Lists(1..MaxKernel, n) :
        /\ args' = [op |-> "get_stack_kernel_sizes", kernel_size |-> kernel_size]
        /\ ret' = Ok(get_stack_kernel_sizes(kernel_size))
    /\ pc' = "returned"
    /\ UNCHANGED <<self, outputs, idx, calls>>

Call_get_stack_conv_shifts ==
    /\ pc = "idle"
    /\ \E n \in 1..MaxNdims :
        /\ args' = [op |-> "get_stack_conv_shifts", spatial_ndims |-> n]
        /\ ret' = Ok(get_stack_conv_shifts(n))
    /\ pc' = "returned"
    /\ UNCHANGED <<self, outputs, idx, calls>>

\* the keyword arguments of a caller: without a padding, or with one
ShiftedConvKwargs ==
    {[weight_norm |-> "False"],
     [weight_norm |-> "False", padding |-> "half"],
     [weight_norm |-> "False", padding |-> "none"]}

Call_shifted_conv ==
    /\ pc = "idle"
    /\ \E n \in 1..MaxConvNdims :
       \E spatial_shift \in Lists(BOOLEAN, n), kernel_size \in Lists(1..MaxKernel, n), dilation \in Lists(1..MaxDilation, n) :
       \E kwargs \in ShiftedConvKwargs :
        /\ args' = [op |-> "shifted_conv", spatial_shift |-> spatial_shift,
                    kernel_size |-> kernel_size, dilation |-> dilation, kwargs |-> kwargs]
        /\ ret' = Ok(shifted_conv("Conv", 1, 1, spatial_shift, kernel_size, dilation, kwargs))
    /\ pc' = "returned"
    /\ UNCHANGED <<self, outputs, idx, calls>>

New_PixelCNNInputNd ==
    /\ pc = "idle"
    /\ \E n \in SpatialNdims : \E kernel_size \in FullKernels(n) : \E add_ones_channel \in BOOLEAN :
        /\ args' = [op |-> "PixelCNNInputNd", spatial_ndims |-> n,
                    kernel_size |-> kernel_size, add_ones_channel |-> add_ones_channel]
        /\ self' = PixelCNNInputNd_init(n, 1, 1, kernel_size, add_ones_channel)
    /\ pc' = "constructed"
    /\ ret' = Ok(None)
    /\ UNCHANGED <<outputs, idx, calls>>

Call_PixelCNNInputNd ==
    /\ pc = "constructed"
    /\ self.cls = "PixelCNNInputNd"
    /\ \E n \in SpatialNdims : \E q \in Probes(Cube(n)) :
        /\ args' = [op |-> "PixelCNNInputNd._call", input |-> Indicator(Cube(n), q, 1)]
        /\ ret' = PixelCNNInputNd_call(self, Indicator(Cube(n), q, 1))
    /\ pc' = IF ret'.err = "none" THEN "returned" ELSE "raised"
    /\ UNCHANGED <<self, outputs, idx, calls>>

New_PixelCNNOutputNd ==
    /\ pc = "idle"
    /\ \E n \in SpatialNdims :
        /\ args' = [op |-> "PixelCNNOutputNd", spatial_ndims |-> n]
        /\ self' = PixelCNNOutputNd_init(n)
    /\ pc' = "constructed"
    /\ ret' = Ok(None)
    /\ UNCHANGED <<outputs, idx, calls>>

\* a list of len tensors, the i-th one being i at position q
StackList(n, len, q) == [i \in 1..len |-> Indicator(Cube(n), q, i)]

Call_PixelCNNOutputNd ==
    /\ pc = "constructed"
    /\ self.cls = "PixelCNNOutputNd"
    /\ \E len \in 0..(self.spatial_ndims + 1) : \E q \in Probes(Cube(self.spatial_ndims)) :
        /\ args' = [op |-> "PixelCNNOutputNd._call", inputs |-> StackList(self.spatial_ndims, len, q)]
        /\ ret' = PixelCNNOutputNd_call(self, StackList(self.spatial_ndims, len, q))
    /\ pc' = IF ret'.err = "none" THEN "returned" ELSE "raised"
    /\ UNCHANGED <<self, outputs, idx, calls>>

New_PixelCNNResBlockNd ==
    /\ pc = "idle"
    /\ \E n \in SpatialNdims : \E kernel_size \in FullKernels(n) : \E merge_context1 \in MergeFactories :
        /\ args' = [op |-> "PixelCNNResBlockNd", spatial_ndims |-> n,
                    kernel_size |-> kernel_size, merge_context1 |-> merge_context1]
        /\ ret' = PixelCNNResBlockNd_init(n, 1, 1, kernel_size, merge_context1)
    /\ self' = IF ret'.err = "none" THEN ret'.val ELSE None
    /\ pc' = IF ret'.err = "none" THEN "constructed" ELSE "raised"
    /\ UNCHANGED <<outputs, idx, calls>>

Call_PixelCNNResBlockNd ==
    /\ pc = "constructed"
    /\ self.cls = "PixelCNNResBlockNd"
    /\ \E len \in 0..(self.spatial_ndims + 1) : \E q \in Probes(Cube(self.spatial_ndims)) : \E nctx \in 0..1 :
        LET inputs == StackList(self.spatial_ndims, len, q)
            context == [c \in 1..nctx |-> Indicator(Cube(self.spatial_ndims), q, 1)]
        IN  /\ args' = [op |-> "PixelCNNResBlockNd._call", inputs |-> inputs, context |-> context]
            /\ ret' = PixelCNNResBlockNd_call(self, inputs, context)
    /\ pc' = IF ret'.err = "none" THEN "returned" ELSE "raised"
    /\ UNCHANGED <<self, outputs, idx, calls>>

\* a layer compiled by the JIT: opaque, whatever layer it was compiled from
jit_compile(layer) == [cls |-> "ScriptModule", original |-> layer]

\* what a client may pass as input_layer: an input layer of any of the three
\* classes, plain or compiled, or a layer of another class
InputLayerCandidates ==
    LET plain == {PixelCNNInputNd_init(m, 1, 1, ListRepeat(3, m), FALSE) : m \in SpatialNdims}
    IN  plain \cup {jit_compile(l) : l \in plain} \cup {PixelCNNOutputNd_init(m) : m \in SpatialNdims}

\* PixelCNN{n}d(input_layer), with no residual layers
New_PixelCNNNd_input_layer ==
    /\ pc = "idle"
    /\ \E n \in SpatialNdims : \E input_layer \in InputLayerCandidates :
        /\ args' = [op |-> "PixelCNNNd", spatial_ndims |-> n, input_layer |-> input_layer]
        /\ ret' = PixelCNNNd_init(n, input_layer, <<>>)
    /\ self' = IF ret'.err = "none" THEN ret'.val ELSE None
    /\ pc' = IF ret'.err = "none" THEN "constructed" ELSE "raised"
    /\ UNCHANGED <<outputs, idx, calls>>

\* branches a client may give to BranchAndAdd: the branches of 2-D input layers
BranchPool ==
    {input_branch(2, 1, 1, get_stack_kernel_sizes(<<3, 3>>), get_stack_conv_shifts(2), 0),
     input_branch(2, 1, 1, get_stack_kernel_sizes(<<3, 3>>), get_stack_conv_shifts(2), 1),
     input_branch(2, 1, 1, get_stack_kernel_sizes(<<5, 3>>), get_stack_conv_shifts(2), 0)}

\* BranchAndAdd(*branches) with one branch or more
New_BranchAndAdd ==
    /\ pc = "idle"
    /\ \E n \in 1..MaxBranches : \E branches \in Lists(BranchPool, n) :
        /\ args' = [op |-> "BranchAndAdd", branches |-> branches]
        /\ self' = BranchAndAdd_init(branches)
    /\ pc' = "constructed"
    /\ ret' = Ok(None)
    /\ UNCHANGED <<outputs, idx, calls>>

Call_BranchAndAdd ==
    /\ pc = "constructed"
    /\ self.cls = "BranchAndAdd"
    /\ \E q \in Probes(Cube(2)) :
        /\ args' = [op |-> "BranchAndAdd._call", input |-> Indicator(Cube(2), q, 1)]
        /\ ret' = Ok(BranchAndAdd_call(self, Indicator(Cube(2), q, 1)))
    /\ pc' = "returned"
    /\ UNCHANGED <<self, outputs, idx, calls>>

Next ==
    \/ Call_get_stack_kernel_sizes
    \/ Call_get_stack_conv_shifts
    \/ Call_shifted_conv
    \/ New_PixelCNNInputNd
    \/ Call_PixelCNNInputNd
    \/ New_PixelCNNOutputNd
    \/ Call_PixelCNNOutputNd
    \/ New_PixelCNNResBlockNd
    \/ Call_PixelCNNResBlockNd
    \/ New_PixelCNNNd_input_layer
    \/ New_BranchAndAdd
    \/ Call_BranchAndAdd

Spec == Init /\ [][Next]_vars

(***************************************************************************)
(* The client builds a network PixelCNN{n}d(PixelCNNInput{n}d(...),        *)
(* PixelCNNResBlock{n}d(...), ...) and calls it on an input tensor in      *)
(* which one element is perturbed, with an external context that does not  *)
(* depend on the input.  PixelCNNNd._call goes through line 599, the loop  *)
(* of lines 600-601 and line 602.                                          *)
(***************************************************************************)
\* the client's PixelCNN{n}d(PixelCNNInput{n}d(1, 1, kernel_size),
\* PixelCNNResBlock{n}d(1, 1, kernel_size, merge_context1), ...): a residual
\* layer's constructor may raise, and then no network is built
build_network(n, kernel_size, nlayers, merge_context1) ==
    LET block == PixelCNNResBlockNd_init(n, 1, 1, kernel_size, merge_context1)
    IN  IF nlayers > 0 /\ block.err /= "none"
        THEN block
        ELSE PixelCNNNd_init(n, PixelCNNInputNd_init(n, 1, 1, kernel_size, TRUE),
                             [b \in 1..nlayers |-> block.val])

\* full kernels of the networks: mixed sizes on two axes only
NetKernels(n) == {ListRepeat(k, n) : k \in 1..MaxKernel} \cup (IF n = 2 THEN Lists(OddKernels, n) ELSE {})

New_PixelCNNNd ==
    /\ pc = "idle"
    /\ \E n \in SpatialNdims : \E kernel_size \in NetKernels(n) : \E nlayers \in 0..MaxLayers :
       \E merge_context1 \in {None, [cls |-> "AddContext"]} :
        /\ nlayers = 0 => merge_context1 = None
        /\ (nlayers > 0 /\ n > 2) => merge_context1 /= None
        /\ args' = [op |-> "PixelCNNNd", spatial_ndims |-> n, kernel_size |-> kernel_size,
                    nlayers |-> nlayers, merge_context1 |-> merge_context1]
        /\ ret' = build_network(n, kernel_size, nlayers, merge_context1)
    /\ self' = IF ret'.err = "none" THEN ret'.val ELSE None
    /\ pc' = IF ret'.err = "none" THEN "constructed" ELSE "raised"
    /\ UNCHANGED <<outputs, idx, calls>>

\* the input elements a run perturbs: every one on up to two axes, the
\* first and the middle coordinate of every axis on three
Perturbed(n) == {q \in Box(Cube(n)) : n > 2 => \A a \in 1..n : q[a] \in {0, GridSize \div 2}}

\* the external context: tensors that no input element reaches
ExternalContext(n, nctx) == [c \in 1..nctx |-> Indicator(Cube(n), [a \in 1..n |-> 0], 0)]

\* line 599, outputs = self.input_layer(input)
PixelCNNNd_call_input ==
    /\ pc = "constructed"
    /\ self.cls = "PixelCNNNd"
    /\ \E q \in Perturbed(self.spatial_ndims) :
        /\ args' = [op |-> "PixelCNNNd._call", pert |-> q,
                    input |-> Indicator(Cube(self.spatial_ndims), q, 1),
                    context |-> ExternalContext(self.spatial_ndims, 1)]
        /\ LET r == PixelCNNInputNd_call(self.input_layer, Indicator(Cube(self.spatial_ndims), q, 1))
           IN  /\ IF r.err = "none"
                  THEN pc' = "blocks" /\ outputs' = r.val /\ ret' = Ok(None)
                  ELSE pc' = "raised" /\ outputs' = <<>> /\ ret' = r
               /\ calls' = <<Called("input_layer", 0, Indicator(Cube(self.spatial_ndims), q, 1), <<>>, r)>>
    /\ idx' = 0
    /\ UNCHANGED self

PixelCNNNd_call_block_discard ==
    /\ pc = "blocks"
    /\ idx < Len(self.layers)
    /\ LET r == PixelCNNResBlockNd_call(self.layers[idx + 1], outputs, args.context)
       IN  /\ IF r.err = "none"
              THEN pc' = "blocks" /\ outputs' = outputs /\ ret' = Ok(None)
              ELSE pc' = "raised" /\ outputs' = <<>> /\ ret' = r
           /\ calls' = Append(calls, Called("layers", idx, outputs, args.context, r))
    /\ idx' = idx + 1
    /\ UNCHANGED <<self, args>>

\* lines 600-601, outputs = block(outputs, context) for the next block
PixelCNNNd_call_block ==
    /\ pc = "blocks"
    /\ idx < Len(self.layers)
    /\ LET r == PixelCNNResBlockNd_call(self.layers[idx + 1], outputs, args.context)
       IN  /\ IF r.err = "none"
              THEN pc' = "blocks" /\ outputs' = r.val /\ ret' = Ok(None)
              ELSE pc' = "raised" /\ outputs' = <<>> /\ ret' = r
           /\ calls' = Append(calls, Called("layers", idx, outputs, args.context, r))
    /\ idx' = idx + 1
    /\ UNCHANGED <<self, args>>

\* line 602, return self.output_layer(outputs)
PixelCNNNd_call_output ==
    /\ pc = "blocks"
    /\ idx = Len(self.layers)
    /\ ret' = PixelCNNOutputNd_call(self.output_layer, outputs)
    /\ calls' = Append(calls, Called("output_layer", 0, outputs, <<>>, ret'))
    /\ pc' = IF ret'.err = "none" THEN "returned" ELSE "raised"
    /\ UNCHANGED <<self, args, outputs, idx>>

NextNet ==
    \/ New_PixelCNNNd
    \/ PixelCNNNd_call_input
    \/ PixelCNNNd_call_block
    \/ PixelCNNNd_call_output

SpecNet == Init /\ [][NextNet]_vars

(***************************************************************************)
(* PixelCNNResBlockNd._call, one iteration of its loop (lines 525-531) at  *)
(* a time: outputs is the local resnet_outputs, idx the local i.           *)
(***************************************************************************)
\* the external context of a residual layer's call: nctx different tensors
StageContext(n, q, nctx) == [c \in 1..nctx |-> Indicator(Cube(n), q, c)]

\* lines 523-524
PixelCNNResBlockNd_call_begin ==
    /\ pc = "constructed"
    /\ self.cls = "PixelCNNResBlockNd"
    /\ \E len \in (self.spatial_ndims - 1)..(self.spatial_ndims + 1) :
       \E q \in Probes(Cube(self.spatial_ndims)) : \E nctx \in 0..MaxContext :
        args' = [op |-> "PixelCNNResBlockNd._call",
                 inputs |-> StackList(self.spatial_ndims, len, q),
                 context |-> StageContext(self.spatial_ndims, q, nctx)]
    /\ pc' = "stage"
    /\ outputs' = <<>>
    /\ idx' = 0
    /\ calls' = <<>>
    /\ ret' = Ok(None)
    /\ UNCHANGED self

\* lines 525-531, one iteration
PixelCNNResBlockNd_call_resnet_layer ==
    /\ pc = "stage"
    /\ idx < Len(self.resnet_layers)
    /\ IF idx >= Len(args.inputs)
       THEN /\ pc' = "raised"
            /\ ret' = Raise("IndexError")
            /\ UNCHANGED <<outputs, idx, calls>>
       ELSE LET context == block_context(outputs, args.context)
                this_output == ResBlockNd_call(self.resnet_layers[idx + 1], args.inputs[idx + 1], context)
            IN  /\ outputs' = Append(outputs, this_output)
                /\ calls' = Append(calls, Called("resnet_layers", idx, args.inputs[idx + 1],
                                                 context, Ok(this_output)))
                /\ idx' = idx + 1
                /\ UNCHANGED <<pc, ret>>
    /\ UNCHANGED <<self, args>>

\* line 533
PixelCNNResBlockNd_call_return ==
    /\ pc = "stage"
    /\ idx = Len(self.resnet_layers)
    /\ ret' = Ok(outputs)
    /\ pc' = "returned"
    /\ UNCHANGED <<self, args, outputs, idx, calls>>

NextStage ==
    \/ New_PixelCNNResBlockNd
    \/ PixelCNNResBlockNd_call_begin
    \/ PixelCNNResBlockNd_call_resnet_layer
    \/ PixelCNNResBlockNd_call_return

SpecStage == Init /\ [][NextStage]_vars

(***************************************************************************)
(* BranchAndAdd._call with its branches evaluated in any order: outputs is *)
(* the local branch_outputs, one slot per branch, None until the branch    *)
(* has been evaluated.  The sum of lines 77-79 is taken once every branch  *)
(* has written its slot.                                                   *)
(***************************************************************************)
\* line 74
BranchAndAdd_call_begin ==
    /\ pc = "constructed"
    /\ self.cls = "BranchAndAdd"
    /\ \E q \in Probes(Cube(2)) :
        args' = [op |-> "BranchAndAdd._call", input |-> Indicator(Cube(2), q, 1)]
    /\ pc' = "branches"
    /\ outputs' = [b \in 1..Len(self.branches) |-> None]
    /\ calls' = <<>>
    /\ ret' = Ok(None)
    /\ UNCHANGED <<self, idx>>

\* lines 75-76 for one branch that has not been evaluated yet
BranchAndAdd_call_branch ==
    /\ pc = "branches"
    /\ \E b \in 1..Len(self.branches) :
        /\ outputs[b] = None
        /\ LET branch_output == branch_eval(self, b, args.input, outputs)
           IN  /\ outputs' = [outputs EXCEPT ![b] = branch_output]
               /\ calls' = Append(calls, Called("branches", b - 1, args.input, <<>>, Ok(branch_output)))
    /\ UNCHANGED <<pc, self, args, idx, ret>>

\* lines 77-80
BranchAndAdd_call_sum ==
    /\ pc = "branches"
    /\ \A b \in 1..Len(self.branches) : outputs[b] /= None
    /\ ret' = Ok(add_from(outputs[1], outputs, 2))
    /\ pc' = "returned"
    /\ UNCHANGED <<self, args, outputs, idx, calls>>

NextBranches ==
    \/ New_BranchAndAdd
    \/ BranchAndAdd_call_begin
    \/ BranchAndAdd_call_branch
    \/ BranchAndAdd_call_sum

SpecBranches == Init /\ [][NextBranches]_vars

(***************************************************************************)
(* The claims.  The code raises ValueError where the specification names   *)
(* InvalidKernelError, RankMismatchError and ArityMismatchError.           *)
(***************************************************************************)
\* position p comes before position q in raster (row-major) order
RasterBefore(p, q) ==
    \E a \in 1..Len(p) : p[a] < q[a] /\ \A b \in 1..(a - 1) : p[b] = q[b]

\* the ceiling of k / 2
Ceil2(k) == CHOOSE c \in 0..k : 2 * c >= k /\ 2 * (c - 1) < k

\* a full kernel as the data model asks: every size odd and at least 3
ValidFullKernel(kernel_size) ==
    \A a \in 1..Len(kernel_size) : kernel_size[a] >= 3 /\ kernel_size[a] % 2 = 1

\* a call of the 2-D network has returned its final output
Returned2d ==
    /\ pc = "returned"
    /\ args.op = "PixelCNNNd._call"
    /\ self.spatial_ndims = 2

\* C1: in a 2-D network (input layer, any number of residual layers, output
\* layer; the external context does not depend on the input) the final
\* output at every position before (r, c) in raster order does not depend
\* on the input element at (r, c).
C1_Causality2d ==
    Returned2d =>
        \A p \in DOMAIN ret.val.data :
            (p[1] < args.pert[1] \/ (p[1] = args.pert[1] /\ p[2] < args.pert[2]))
                => ret.val.data[p] = 0

\* a 2-D network of kernel size 3 with two residual layers, perturbed at
\* (2, 2): the output changes at (2, 3), and positions before (2, 2) exist
C1_Witness ==
    /\ Returned2d
    /\ Len(self.layers) >= 2
    /\ self.input_layer.stacks[1].conv.kernel_size = <<2, 3>>
    /\ args.pert = <<2, 2>>
    /\ ret.val.data[<<2, 3>>] > 0
    /\ ret.val.data[<<2, 1>>] = 0

\* C2 as stated: the final output at (r, c) itself depends on the input
\* element at (r, c), and so does the output at some later position when
\* there is one.
C2_DependsOnOwnAndLater ==
    Returned2d =>
        /\ ret.val.data[args.pert] > 0
        /\ (\E p \in DOMAIN ret.val.data : RasterBefore(args.pert, p)) =>
               (\E p \in DOMAIN ret.val.data : RasterBefore(args.pert, p) /\ ret.val.data[p] > 0)

\* C2 as amended: the final output at (r, c) itself never depends on the
\* input element at (r, c); the output at (r, c + 1) and at (r + 1, c),
\* where these are in the grid, does.
C2_DependsOnLaterOnly ==
    Returned2d =>
        LET r == args.pert[1]
            c == args.pert[2]
        IN  /\ ret.val.data[<<r, c>>] = 0
            /\ <<r, c + 1>> \in DOMAIN ret.val.data => ret.val.data[<<r, c + 1>>] > 0
            /\ <<r + 1, c>> \in DOMAIN ret.val.data => ret.val.data[<<r + 1, c>>] > 0

C2_Witness ==
    /\ Returned2d
    /\ Len(self.layers) >= 1
    /\ args.pert = <<1, 1>>
    /\ ret.val.data[<<1, 1>>] = 0
    /\ ret.val.data[<<1, 2>>] > 0
    /\ ret.val.data[<<2, 1>>] > 0

\* C3: for a full kernel of odd sizes >= 3 on D axes, get_stack_kernel_sizes
\* returns D rows of D sizes, entry [i][j] being ceil(k_j / 2) when j <= i
\* and k_j when j > i.
C3_StackKernelMatrix ==
    (pc = "returned" /\ args.op = "get_stack_kernel_sizes" /\ ValidFullKernel(args.kernel_size)) =>
        LET k == args.kernel_size
        IN  /\ Len(ret.val) = Len(k)
            /\ \A i \in 1..Len(k) :
                /\ Len(ret.val[i]) = Len(k)
                /\ \A j \in 1..Len(k) :
                    ret.val[i][j] = IF j <= i THEN Ceil2(k[j]) ELSE k[j]

C3_Witness ==
    /\ pc = "returned"
    /\ args.op = "get_stack_kernel_sizes"
    /\ args.kernel_size = <<3, 5, 3>>
    /\ ret.val = <<<<2, 5, 3>>, <<2, 3, 3>>, <<2, 3, 2>>>>

\* C4: get_stack_conv_shifts(D) returns D rows of D booleans, row i being
\* True in the columns 0..i and False in the columns i+1..D-1.
C4_ShiftMatrix ==
    (pc = "returned" /\ args.op = "get_stack_conv_shifts") =>
        LET n == args.spatial_ndims
        IN  /\ Len(ret.val) = n
            /\ \A i \in 1..n :
                /\ Len(ret.val[i]) = n
                /\ \A j \in 1..n : ret.val[i][j] = (j <= i)

C4_Witness ==
    /\ pc = "returned"
    /\ args.op = "get_stack_conv_shifts"
    /\ args.spatial_ndims = 3
    /\ ret.val = <<<<TRUE, FALSE, FALSE>>, <<TRUE, TRUE, FALSE>>, <<TRUE, TRUE, TRUE>>>>

\* C5: the padding shifted_conv gives an axis of kernel size k and dilation
\* d is ((k-1)*d, 0) when the axis is causal, and otherwise has
\* left = ((k-1)*d) // 2 and left + right = (k-1)*d.
C5_Padding ==
    (pc = "returned" /\ args.op = "shifted_conv") =>
        /\ Len(ret.val.padding) = Len(args.spatial_shift)
        /\ \A a \in 1..Len(args.spatial_shift) :
            LET t == (args.kernel_size[a] - 1) * args.dilation[a]
                left == ret.val.padding[a][1]
                right == ret.val.padding[a][2]
            IN  IF args.spatial_shift[a]
                THEN left = t /\ right = 0
                ELSE left = t \div 2 /\ left + right = t

\* a causal axis of kernel 3 and dilation 2, a non-causal one of kernel 4
C5_Witness ==
    /\ pc = "returned"
    /\ args.op = "shifted_conv"
    /\ args.spatial_shift = <<TRUE, FALSE>>
    /\ args.kernel_size = <<3, 4>>
    /\ args.dilation = <<2, 1>>
    /\ ret.val.padding = <<<<4, 0>>, <<1, 2>>>>

\* C6: no kernel matrix and no input layer is ever produced from a full
\* kernel that has a size below 3 or an even size.
C6_InvalidKernelRejected ==
    /\ (pc = "returned" /\ args.op = "get_stack_kernel_sizes") => ValidFullKernel(args.kernel_size)
    /\ (pc = "constructed" /\ args.op = "PixelCNNInputNd") => ValidFullKernel(args.kernel_size)

\* C7: PixelCNNResBlockNd._call on a list of stacks whose length is not the
\* layer's number of spatial axes raises and returns no stacks.
C7_ArityMismatchRaises ==
    (args.op = "PixelCNNResBlockNd._call" /\ Len(args.inputs) /= self.spatial_ndims) =>
        pc = "raised" /\ ret.err /= "none"

\* C8: the constructor of a residual layer given a full kernel with a size
\* below 3 or an even size raises, and no residual block is built.
C8_ResBlockRejectsKernel ==
    (args.op = "PixelCNNResBlockNd" /\ ~ValidFullKernel(args.kernel_size)) =>
        pc = "raised" /\ ret.err = "ValueError" /\ ret.val = None /\ self = None

\* a 3-D residual layer asked for with the even full kernel 4
C8_Witness ==
    /\ args.op = "PixelCNNResBlockNd"
    /\ args.spatial_ndims = 3
    /\ args.kernel_size = <<4, 4, 4>>
    /\ pc = "raised"
    /\ ret.err = "ValueError"

\* C9: PixelCNNOutputNd._call raises when the list does not hold D stacks,
\* and for a list of D stacks returns its last element unchanged.
C9_OutputLast ==
    args.op = "PixelCNNOutputNd._call" =>
        IF Len(args.inputs) /= self.spatial_ndims
        THEN pc = "raised" /\ ret.err = "ValueError" /\ ret.val = None
        ELSE pc = "returned" /\ ret.err = "none" /\ ret.val = args.inputs[self.spatial_ndims]

\* the 3-D output layer on three distinct stacks
C9_Witness ==
    /\ args.op = "PixelCNNOutputNd._call"
    /\ self.spatial_ndims = 3
    /\ Len(args.inputs) = 3
    /\ args.inputs[1] /= args.inputs[3]
    /\ ret.val = args.inputs[3]

\* C10: PixelCNNInputNd._call raises, with no stack evaluated, when the
\* rank of the input is not D + 2; for rank D + 2 it returns D tensors,
\* the i-th being the output of stack i.
C10_InputCall ==
    args.op = "PixelCNNInputNd._call" =>
        IF rank(args.input) /= self.spatial_ndims + 2
        THEN pc = "raised" /\ ret.err = "ValueError" /\ ret.val = None
        ELSE /\ pc = "returned"
             /\ ret.err = "none"
             /\ Len(ret.val) = self.spatial_ndims
             /\ \A i \in 1..self.spatial_ndims :
                    ret.val[i] = stack_call(self.stacks[i],
                                     IF self.add_ones_channel
                                     THEN AddOnesChannelNd_call(args.input)
                                     ELSE args.input)

\* the 2-D input layer on a rank-4 input: two stacks that differ
C10_Witness ==
    /\ args.op = "PixelCNNInputNd._call"
    /\ self.spatial_ndims = 2
    /\ rank(args.input) = 4
    /\ pc = "returned"
    /\ Len(ret.val) = 2
    /\ ret.val[1] /= ret.val[2]

\* a residual layer's call is running or has ended
InStage == args.op = "PixelCNNResBlockNd._call" /\ pc \in {"stage", "returned", "raised"}

\* C11: in one call of a residual layer the blocks are called in index order
\* 0, 1, ..., each on its own stack, and the context given to block i is the
\* outputs of blocks 0..i-1 of this call, in index order, followed by the
\* external context in its given order, and nothing else; the call returns
\* after D blocks.
C11_SequentialContext ==
    InStage =>
        /\ Len(calls) = Len(outputs)
        /\ \A k \in 1..Len(calls) :
              /\ calls[k].callee = "resnet_layers"
              /\ calls[k].index = k - 1
              /\ calls[k].input = args.inputs[k]
              /\ calls[k].context = SubSeq(outputs, 1, k - 1) \o args.context
              /\ Len(calls[k].context) = k - 1 + Len(args.context)
              /\ calls[k].result = Ok(outputs[k])
        /\ pc = "returned" => (Len(calls) = self.spatial_ndims /\ ret = Ok(outputs))

\* the last block of a 3-D layer has been given two outputs and two external tensors
C11_Witness ==
    /\ InStage
    /\ pc = "returned"
    /\ self.spatial_ndims = 3
    /\ Len(args.context) = 2
    /\ Len(calls) = 3
    /\ calls[3].context = <<outputs[1], outputs[2]>> \o args.context
    /\ outputs[1] /= outputs[2]

\* C12: a call of the network calls the input layer once, on the input,
\* then every residual layer once, in the order of self.layers, each on the
\* list of stacks the call before it returned and on the external context
\* of the call, and returns what the output layer returns on the list of
\* stacks of the last of these calls.
C12_CompositeOrder ==
    (pc = "returned" /\ args.op = "PixelCNNNd._call") =>
        LET L == Len(self.layers)
        IN  /\ Len(calls) = L + 2
            /\ calls[1].callee = "input_layer"
            /\ calls[1].input = args.input
            /\ calls[1].result = PixelCNNInputNd_call(self.input_layer, args.input)
            /\ \A k \in 1..L :
                  /\ calls[k + 1].callee = "layers"
                  /\ calls[k + 1].index = k - 1
                  /\ calls[k + 1].input = calls[k].result.val
                  /\ calls[k + 1].context = args.context
            /\ calls[L + 2].callee = "output_layer"
            /\ calls[L + 2].input = calls[L + 1].result.val
            /\ ret = calls[L + 2].result
            /\ ret = PixelCNNOutputNd_call(self.output_layer, calls[L + 1].result.val)

\* a network of two residual layers has returned
C12_Witness ==
    /\ pc = "returned"
    /\ args.op = "PixelCNNNd._call"
    /\ Len(self.layers) = 2
    /\ Len(calls) = 4
    /\ calls[3].input = calls[2].result.val
    /\ calls[3].input /= calls[2].input

\* a network without residual layers: the output layer is given the stacks
\* of the input layer
C12_WitnessNoLayers ==
    /\ pc = "returned"
    /\ args.op = "PixelCNNNd._call"
    /\ Len(self.layers) = 0
    /\ calls[2].callee = "output_layer"
    /\ calls[2].input = calls[1].result.val

\* C13: the constructor of the network of D spatial axes raises TypeError
\* exactly when the input layer is neither a PixelCNNInputNd of D axes nor a
\* compiled layer; an input layer of another number of axes is never
\* accepted; a compiled layer is accepted whatever it was compiled from.
C13_InputLayerTypeChecked ==
    (args.op = "PixelCNNNd" /\ pc \in {"constructed", "raised"}) =>
        LET il == args.input_layer
            n == args.spatial_ndims
            matching == il.cls = "PixelCNNInputNd" /\ il.spatial_ndims = n
            compiled == il.cls = "ScriptModule"
        IN  /\ (~matching /\ ~compiled) <=> (pc = "raised" /\ ret.err = "TypeError" /\ self = None)
            /\ (il.cls = "PixelCNNInputNd" /\ il.spatial_ndims /= n) => pc = "raised"
            /\ compiled => (pc = "constructed" /\ self.input_layer = il)
            /\ pc = "constructed" => (self.spatial_ndims = n /\ self.output_layer = PixelCNNOutputNd_init(n))

\* a 2-D input layer given to the 3-D network
C13_Witness ==
    /\ args.op = "PixelCNNNd"
    /\ pc = "raised"
    /\ ret.err = "TypeError"
    /\ args.spatial_ndims = 3
    /\ args.input_layer.cls = "PixelCNNInputNd"
    /\ args.input_layer.spatial_ndims = 2

\* C14: the convolution shifted_conv builds is the same whatever padding
\* the caller gives, or none, among the keyword arguments, and no padding
\* of the caller is among the keyword arguments handed on.
C14_PaddingIgnored ==
    (pc = "returned" /\ args.op = "shifted_conv") =>
        /\ "padding" \notin DOMAIN ret.val.kwargs
        /\ \A kwargs \in ShiftedConvKwargs :
              ret.val = shifted_conv("Conv", 1, 1, args.spatial_shift, args.kernel_size,
                                     args.dilation, kwargs)

\* a caller gave the padding "none" for a kernel of size 3: the padding is (2, 0)
C14_Witness ==
    /\ pc = "returned"
    /\ args.op = "shifted_conv"
    /\ "padding" \in DOMAIN args.kwargs
    /\ args.kwargs.padding = "none"
    /\ args.spatial_shift = <<TRUE>>
    /\ args.kernel_size = <<3>>
    /\ args.dilation = <<1>>
    /\ ret.val.padding = <<<<2, 0>>>>

RECURSIVE SumAt(_, _, _)
\* the sum of the elements at position p of the tensors ts[b], ts[b + 1], ...
SumAt(ts, p, b) == IF b > Len(ts) THEN 0 ELSE ts[b].data[p] + SumAt(ts, p, b + 1)

\* C15: a BranchAndAdd of one branch returns the output of that branch on
\* the input, unchanged; one of n >= 2 branches returns the elementwise sum
\* of the outputs of all n branches, each applied to the same input.
C15_BranchAndAddSum ==
    (pc = "returned" /\ args.op = "BranchAndAdd._call") =>
        LET outs == Materialize([b \in 1..Len(self.branches) |-> Sequential_call(self.branches[b], args.input)])
        IN  /\ Len(self.branches) = 1 => ret.val = outs[1]
            /\ Len(self.branches) >= 2 =>
                  /\ ret.val.shape = outs[1].shape
                  /\ DOMAIN ret.val.data = DOMAIN outs[1].data
                  /\ \A p \in DOMAIN ret.val.data : ret.val.data[p] = SumAt(outs, p, 1)

\* one branch, and an output that is not zero
C15_Witness ==
    /\ pc = "returned"
    /\ args.op = "BranchAndAdd._call"
    /\ Len(self.branches) = 1
    /\ \E p \in DOMAIN ret.val.data : ret.val.data[p] > 0

\* three branches, and an element to which all three contribute
C15_WitnessSum ==
    /\ pc = "returned"
    /\ args.op = "BranchAndAdd._call"
    /\ Len(self.branches) = 3
    /\ \E p \in DOMAIN ret.val.data : ret.val.data[p] >= 3

\* C19: whatever the order in which the branches of a BranchAndAdd are
\* evaluated, every branch is called once, on the input of the call, its
\* output is what the branch gives on that input alone, and the call
\* returns what the evaluation in construction order returns.
C19_BranchOrderIrrelevant ==
    (args.op = "BranchAndAdd._call" /\ pc \in {"branches", "returned"}) =>
        /\ \A k \in 1..Len(calls) :
              /\ calls[k].input = args.input
              /\ calls[k].result.val = Sequential_call(self.branches[calls[k].index + 1], args.input)
              /\ outputs[calls[k].index + 1] = calls[k].result.val
              /\ \A l \in 1..Len(calls) : calls[l].index = calls[k].index => l = k
        /\ pc = "returned" =>
              /\ Len(calls) = Len(self.branches)
              /\ ret = Ok(BranchAndAdd_call(self, args.input))

\* the branches were evaluated last to first
C19_Witness ==
    /\ pc = "returned"
    /\ args.op = "BranchAndAdd._call"
    /\ Len(self.branches) = 3
    /\ self.branches[1] /= self.branches[2]
    /\ calls[1].index = 2
    /\ calls[2].index = 1
    /\ calls[3].index = 0

\* the first n coordinates of p come before the first n coordinates of q in
\* lexicographic order
PrefixBefore(p, q, n) ==
    \E a \in 1..n : p[a] < q[a] /\ \A b \in 1..(a - 1) : p[b] = q[b]

\* C16: for D in {1, 2, 3}, after the input layer and after every residual
\* layer, stack i (0-based) at position p depends on the input element at q
\* only if the first i + 1 coordinates of q come strictly before those of p
\* in lexicographic order.
C16_StackCausality ==
    (pc = "blocks" /\ args.op = "PixelCNNNd._call") =>
        \A i \in 1..Len(outputs) : \A p \in DOMAIN outputs[i].data :
            outputs[i].data[p] > 0 => PrefixBefore(args.pert, p, i)

\* after two residual layers of a 3-D network, stack 0 depends on the
\* perturbed element at a position of a later plane whose other two
\* coordinates are smaller, and the last stack on it somewhere
C16_Witness ==
    /\ pc = "blocks"
    /\ args.op = "PixelCNNNd._call"
    /\ self.spatial_ndims = 3
    /\ idx = 2
    /\ args.pert = <<2, 2, 2>>
    /\ outputs[1].data[<<3, 1, 1>>] > 0
    /\ outputs[1].data[<<2, 3, 3>>] = 0
    /\ outputs[3].data[<<2, 2, 3>>] > 0
    /\ outputs[3].data[<<2, 2, 2>>] = 0

\* C17: the input layer has D stacks; stack i (0-based) has the i + 1
\* branches of the axes j <= i, the branch of axis j being the shifted
\* convolution of row j of the kernel sizes and row j of the shifts,
\* followed by the spatial shift that is 1 at axis j and 0 elsewhere; stack
\* 0 is its lone branch, every other stack the BranchAndAdd of its branches.
C17_InputStacks ==
    (pc = "constructed" /\ args.op = "PixelCNNInputNd") =>
        LET D == args.spatial_ndims
            K == get_stack_kernel_sizes(args.kernel_size)
            S == get_stack_conv_shifts(D)
            in_ch == IF args.add_ones_channel THEN 2 ELSE 1
            IsBranch(br, j) ==
                /\ br.cls = "Sequential"
                /\ br.conv.kernel_size = K[j + 1]
                /\ br.conv = shifted_conv("Conv", in_ch, 1, S[j + 1], K[j + 1], ListRepeat(1, D),
                                          [weight_norm |-> "False"])
                /\ br.shift.cls = "SpatialShift"
                /\ br.shift.shift = [a \in 1..D |-> IF a = j + 1 THEN 1 ELSE 0]
        IN  /\ Len(self.stacks) = D
            /\ IsBranch(self.stacks[1], 0)
            /\ \A i \in 1..(D - 1) :
                  /\ self.stacks[i + 1].cls = "BranchAndAdd"
                  /\ Len(self.stacks[i + 1].branches) = i + 1
                  /\ \A j \in 0..i : IsBranch(self.stacks[i + 1].branches[j + 1], j)

\* the last stack of a 2-D input layer of full kernel (3, 5): its branch of
\* axis 0 has the kernel (2, 5), its branch of axis 1 the kernel (2, 3)
C17_Witness ==
    /\ pc = "constructed"
    /\ args.op = "PixelCNNInputNd"
    /\ args.spatial_ndims = 2
    /\ args.kernel_size = <<3, 5>>
    /\ self.stacks[2].cls = "BranchAndAdd"
    /\ self.stacks[2].branches[1].conv.kernel_size = <<2, 5>>
    /\ self.stacks[2].branches[2].conv.kernel_size = <<2, 3>>
    /\ self.stacks[2].branches[2].shift.shift = <<0, 1>>

\* a tensor of one element, v
Probe(v) == [shape |-> <<1, 1, 1>>, data |-> [p \in Box(<<1>>) |-> v]]

RECURSIVE Pow10(_)
Pow10(n) == IF n = 0 THEN 1 ELSE 10 * Pow10(n - 1)

\* a context of n one-element tensors, entry c (1-based) being 10^(c-1): the
\* decimal digits of a sum of entries tell which entries were added, and
\* how often
ProbeList(n) == [c \in 1..n |-> Probe(Pow10(c - 1))]

RECURSIVE DigitSum(_, _)
\* the sum of the entries a..b of a ProbeList, each once
DigitSum(a, b) == IF a > b THEN 0 ELSE Pow10(a - 1) + DigitSum(a + 1, b)

\* C18: of a residual layer built with a merge_context1 factory, block 0
\* has the factory's layer itself, which is given the whole context, and
\* block i > 0 has it wrapped so that it is given the context without its
\* first i entries, the others in order; without a factory no block has a
\* merge_context1 layer.
C18_MergeContextWrapped ==
    (pc = "constructed" /\ args.op = "PixelCNNResBlockNd") =>
        \A i \in 0..(args.spatial_ndims - 1) :
            LET mc == self.resnet_layers[i + 1].merge_context1
            IN  IF args.merge_context1 = None
                THEN mc = None
                ELSE IF i = 0
                THEN /\ mc = [cls |-> args.merge_context1.cls]
                     /\ mc.cls = "AddContext" =>
                           \A n \in 0..MaxContext :
                               merge_call(mc, Probe(0), ProbeList(n)).data[<<0>>] = DigitSum(1, n)
                ELSE /\ mc.cls = "IgnoreLeadingContext"
                     /\ mc.first_n = i
                     /\ mc.wrapped = [cls |-> args.merge_context1.cls]
                     /\ \A n \in i..(i + MaxContext) :
                           /\ slice_from(ProbeList(n), mc.first_n) = [c \in 1..(n - i) |-> ProbeList(n)[i + c]]
                           /\ mc.wrapped.cls = "AddContext" =>
                                 merge_call(mc, Probe(0), ProbeList(n)).data[<<0>>] = DigitSum(i + 1, n)

\* the last block of a 3-D residual layer built with AddContext: of a
\* context of four tensors the wrapped layer adds the last two
C18_Witness ==
    /\ pc = "constructed"
    /\ args.op = "PixelCNNResBlockNd"
    /\ args.spatial_ndims = 3
    /\ args.merge_context1 = [cls |-> "AddContext"]
    /\ self.resnet_layers[3].merge_context1.first_n = 2
    /\ merge_call(self.resnet_layers[3].merge_context1, Probe(0), ProbeList(4)).data[<<0>>] = 1100

\* C20: in a call of a residual layer on D stacks, when block i > 0 is
\* called the outputs so far are i, its context is these i outputs and
\* then the external context, its AddLeadingContext adds the first i
\* entries of that context, each once, and no other, and the layer its
\* IgnoreLeadingContext wraps is given the external context, whatever the
\* length of the external context.
C20_LeadingContextSplit ==
    (InStage /\ Len(args.inputs) = self.spatial_ndims) =>
        \A k \in 2..Len(calls) :
            LET i == k - 1
                block == self.resnet_layers[k]
                n == Len(calls[k].context)
            IN  /\ n = i + Len(args.context)
                /\ SubSeq(calls[k].context, 1, i) = SubSeq(outputs, 1, i)
                /\ SubSeq(calls[k].context, i + 1, n) = args.context
                /\ block.merge_context0.cls = "AddLeadingContext"
                /\ merge_call(block.merge_context0, Probe(0), ProbeList(n)).data[<<0>>] = DigitSum(1, i)
                /\ block.merge_context1 /= None =>
                      /\ block.merge_context1.cls = "IgnoreLeadingContext"
                      /\ slice_from(calls[k].context, block.merge_context1.first_n) = args.context
                      /\ block.merge_context1.wrapped.cls = "AddContext" =>
                            merge_call(block.merge_context1, Probe(0), ProbeList(n)).data[<<0>>] = DigitSum(i + 1, n)

\* the last block of a 3-D layer called with no external context: its
\* AddLeadingContext adds both outputs, the wrapped AddContext gets nothing
C20_Witness ==
    /\ InStage
    /\ pc = "returned"
    /\ self.spatial_ndims = 3
    /\ Len(args.inputs) = 3
    /\ Len(args.context) = 0
    /\ self.resnet_layers[3].merge_context1 /= None
    /\ self.resnet_layers[3].merge_context1.wrapped.cls = "AddContext"
    /\ calls[3].context = <<outputs[1], outputs[2]>>
    /\ merge_call(self.resnet_layers[3].merge_context0, Probe(0), ProbeList(2)).data[<<0>>] = 11
    /\ merge_call(self.resnet_layers[3].merge_context1, Probe(0), ProbeList(2)).data[<<0>>] = 0

\* the spatial shapes of 1..GridSize elements on each of n axes (the size of
\* an axis of the output depends on that axis alone)
Shapes(n) == {ListRepeat(g, n) : g \in 1..GridSize}

\* C21: the padding shifted_conv gives an axis sums to (k - 1) * d, on
\* causal and on other axes, for even kernel sizes too, so the convolution
\* gives every input its own spatial shape; every branch of every stack of
\* an input layer, every stack it returns and every stack a residual layer
\* returns has the spatial shape of the input.
C21_ShapePreserved ==
    /\ (pc = "returned" /\ args.op = "shifted_conv") =>
          /\ \A a \in 1..Len(args.kernel_size) :
                ret.val.padding[a][1] + ret.val.padding[a][2]
                    = (args.kernel_size[a] - 1) * args.dilation[a]
          /\ \A s \in Shapes(Len(args.kernel_size)) : conv_output_shape(ret.val, s) = s
    /\ (pc = "returned" /\ args.op = "PixelCNNInputNd._call") =>
          /\ \A i \in 1..Len(ret.val) : spatial_shape(ret.val[i]) = spatial_shape(args.input)
          /\ \A i \in 2..Len(self.stacks) : \A b \in 1..Len(self.stacks[i].branches) :
                conv_output_shape(self.stacks[i].branches[b].conv, spatial_shape(args.input))
                    = spatial_shape(args.input)
    /\ (pc = "returned" /\ args.op = "PixelCNNResBlockNd._call") =>
          \A i \in 1..Len(ret.val) : spatial_shape(ret.val[i]) = spatial_shape(args.inputs[i])

\* an even kernel size on an axis that is not causal: the padding (1, 2)
C21_Witness ==
    /\ pc = "returned"
    /\ args.op = "shifted_conv"
    /\ args.spatial_shift = <<TRUE, FALSE>>
    /\ args.kernel_size = <<2, 4>>
    /\ args.dilation = <<2, 1>>
    /\ ret.val.padding = <<<<2, 0>>, <<1, 2>>>>
    /\ conv_output_shape(ret.val, <<4, 4>>) = <<4, 4>>

====
